---- MODULE Spec2Model ----
(***************************************************************************)
(* A model of taipan.strings: trim, split, join, camel_case and the        *)
(* Replacer class (with_ / in_).                                           *)
(*                                                                         *)
(* A Python string is a sequence of one-character strings.  A Python value *)
(* is a record whose single field names its type: [str |-> chars],         *)
(* [int |-> n], [none |-> 0].  The outcome of a call is either             *)
(* [exc |-> "none", value |-> v] or [exc |-> <exception type>, msg |-> m]. *)
(***************************************************************************)
EXTENDS Integers, Sequences, FiniteSets, TLC

VARIABLES
    replacements,   \* Replacer._replacements of the one Replacer object
    call,           \* the last call made: its operation, arguments and outcome
    successes,      \* history: how many with_ calls on the Replacer succeeded
    memo            \* history: one earlier successful in_ call on the Replacer

vars == <<replacements, call, successes, memo>>

---------------------------------------------------------------------------
(* Bounds of the model.                                                    *)

MaxStr == 3        \* longest string given to trim and to split
MaxAffix == 2      \* longest prefix / suffix given to trim
MaxDelimiters == 2 \* most literals in a delimiter collection or pattern
MaxSplit == 2      \* largest maxsplit given to split
MaxItems == 3      \* most elements of the iterable given to join
MaxText == 4       \* longest text given to camel_case
MaxHaystack == 3   \* longest haystack given to Replacer.in_
MaxNeedles == 2    \* most needles of a Replacer
MaxSuccesses == 2  \* cap of the count of successful with_ calls
MaxLength == 2     \* largest length given to random
MaxEntries == 3    \* most entries of a class body
MaxOrder == 2      \* largest order of a stage-decorated method

---------------------------------------------------------------------------
(* Python values and call outcomes.                                        *)

Str(chars) == [str |-> chars]
Num(n) == [int |-> n]
None == [none |-> 0]

Ok(v) == [exc |-> "none", value |-> v]
Raise(type, message) == [exc |-> type, msg |-> message]

\* All strings over the characters A of length at most n.
StringsUpTo(A, n) == UNION {[1..k -> A] : k \in 0..n}

Min(a, b) == IF a < b THEN a ELSE b
Max(a, b) == IF a < b THEN b ELSE a

is_string(s) == "str" \in DOMAIN s

ensure_string(s) ==
    IF is_string(s) THEN Ok(s) ELSE Raise("TypeError", "expected a string")

\* s.startswith(prefix), s.endswith(suffix) on character sequences
startswith(s, prefix) ==
    /\ Len(prefix) <= Len(s)
    /\ SubSeq(s, 1, Len(prefix)) = prefix

endswith(s, suffix) ==
    /\ Len(suffix) <= Len(s)
    /\ SubSeq(s, Len(s) - Len(suffix) + 1, Len(s)) = suffix

\* Python slices s[i:] and s[:j]; a negative index counts from the end.
SliceFrom(s, i) ==
    LET lo == IF i < 0 THEN Max(Len(s) + i, 0) ELSE Min(i, Len(s))
    IN  SubSeq(s, lo + 1, Len(s))

SliceTo(s, j) ==
    LET hi == IF j < 0 THEN Max(Len(s) + j, 0) ELSE Min(j, Len(s))
    IN  SubSeq(s, 1, hi)

---------------------------------------------------------------------------
(* trim                                                                    *)

\* The suffix branch without the guard for an empty suffix: s[:-0] is "".
TrimSuffixUnguarded(s, suffix) == SliceTo(s, 0 - Len(suffix))

\* s[:-len(suffix)] if suffix else s
TrimSuffix(s, suffix) ==
    IF suffix # <<>> THEN SliceTo(s, 0 - Len(suffix)) ELSE s

\* The strict flag ignored: an absent affix is never reported.
AffixAbsentLenient(s, strict, message) == Ok(s)

\* The affix is absent: raise when strict, else fall through to "return s".
AffixAbsent(s, strict, message) ==
    IF strict THEN Raise("ValueError", message) ELSE Ok(s)

trim(s, prefix, suffix, strict) ==
    IF ~is_string(s) THEN ensure_string(s)
    ELSE LET has_prefix == prefix # None
             has_suffix == suffix # None
         IN  IF has_prefix = has_suffix
             THEN Raise("ValueError",
                        "exactly one of either prefix or suffix must be provided")
             ELSE IF has_prefix
             THEN IF ~is_string(prefix) THEN ensure_string(prefix)
                  ELSE IF startswith(s.str, prefix.str)
                  THEN Ok(Str(SliceFrom(s.str, Len(prefix.str))))
                  ELSE AffixAbsent(s, strict,
                                   "string does not start with expected prefix")
             ELSE IF ~is_string(suffix) THEN ensure_string(suffix)
                  ELSE IF endswith(s.str, suffix.str)
                  THEN Ok(Str(TrimSuffix(s.str, suffix.str)))
                  ELSE AffixAbsent(s, strict,
                                   "string does not end with expected suffix")

---------------------------------------------------------------------------
(* join                                                                    *)

\* The built-in str.join of character sequences.
RECURSIVE StrJoin(_, _)
StrJoin(delimiter, strs) ==
    IF strs = <<>> THEN <<>>
    ELSE IF Len(strs) = 1 THEN Head(strs)
    ELSE Head(strs) \o delimiter \o StrJoin(delimiter, Tail(strs))

\* The decimal digits of a natural number, as str(n) gives them.
Digits == <<"0", "1", "2", "3", "4", "5", "6", "7", "8", "9">>

RECURSIVE NatToText(_)
NatToText(n) ==
    IF n < 10 THEN <<Digits[n + 1]>>
    ELSE NatToText(n \div 10) \o <<Digits[(n % 10) + 1]>>

\* delimiter.__class__(x), that is str(x): a string is returned as it is.
ToText(x) ==
    IF is_string(x) THEN x.str
    ELSE IF "int" \in DOMAIN x THEN NatToText(x.int)
    ELSE <<"N", "o", "n", "e">>

\* A callable given as with_: "str" returns the textual form of its
\* argument, "same" returns its argument as it is (so not always a string).
is_callable(f) == "callable" \in DOMAIN f

Apply(f, x) ==
    IF f.callable = "const" THEN f.value       \* lambda x: with_
    ELSE IF f.callable = "str" THEN Str(ToText(x))
    ELSE x

\* imap(ensure_string, iterable): the elements, or the first type error.
RECURSIVE EnsureStrings(_)
EnsureStrings(xs) ==
    IF xs = <<>> THEN Ok(<<>>)
    ELSE IF ~is_string(Head(xs)) THEN ensure_string(Head(xs))
    ELSE LET rest == EnsureStrings(Tail(xs))
         IN  IF rest.exc # "none" THEN rest
             ELSE Ok(<<Head(xs)>> \o rest.value)

\* ifilter(is_string, iterable)
FilterStrings(xs) == SelectSeq(xs, is_string)

\* imap(delimiter.__class__, iterable)
CastAll(xs) == [i \in 1..Len(xs) |-> Str(ToText(xs[i]))]

\* The 'replace' policy substituting every element, strings included.
ReplaceEvery(replacement, xs) ==
    [i \in 1..Len(xs) |-> Apply(replacement, xs[i])]

\* (x if is_string(x) else ensure_string(replacement(x)) for x in iterable),
\* before the ensure_string
ReplaceNonStrings(replacement, xs) ==
    [i \in 1..Len(xs) |->
        IF is_string(xs[i]) THEN xs[i] ELSE Apply(replacement, xs[i])]

\* return delimiter.join(iterable), the iterable being an outcome itself
JoinStrings(delimiter, elements) ==
    IF elements.exc # "none" THEN elements
    ELSE Ok(Str(StrJoin(delimiter.str,
                        [i \in 1..Len(elements.value) |-> elements.value[i].str])))

\* kwargs is a record with the optional fields errors and with_.  The policy
\* tokens "True", "None" and "False" stand for the Python values True, None
\* and False.
join(delimiter, iterable, kwargs) ==
    IF ~is_string(delimiter) THEN ensure_string(delimiter)
    ELSE LET errors ==
                 IF "errors" \in DOMAIN kwargs THEN kwargs.errors ELSE "True"
         IN  IF errors \in {"raise", "True"}
             THEN JoinStrings(delimiter, EnsureStrings(iterable))
             ELSE IF errors \in {"ignore", "None"}
             THEN JoinStrings(delimiter, Ok(FilterStrings(iterable)))
             ELSE IF errors \in {"cast", "False"}
             THEN JoinStrings(delimiter, Ok(CastAll(iterable)))
             ELSE IF errors = "replace"
             THEN IF "with_" \notin DOMAIN kwargs
                  THEN Raise("ValueError",
                             "'replace' error policy requires with_")
                  ELSE IF is_string(kwargs.with_)
                  THEN JoinStrings(delimiter,
                          EnsureStrings(ReplaceNonStrings(
                              [callable |-> "const", value |-> kwargs.with_],
                              iterable)))
                  ELSE IF is_callable(kwargs.with_)
                  THEN JoinStrings(delimiter,
                          EnsureStrings(ReplaceNonStrings(kwargs.with_, iterable)))
                  ELSE Raise("TypeError",
                             "error replacement must be a string or function")
             ELSE Raise("TypeError", "not a valid error handling policy")

---------------------------------------------------------------------------
(* Regular expressions.  The only patterns the module builds are           *)
(* alternations of escaped literals, so a pattern is its text and is       *)
(* compiled to the sequence of its literal alternatives.                   *)

Regex(text) == [regex |-> text]
is_regex(r) == "regex" \in DOMAIN r

\* The characters of the model's alphabets that re.escape escapes.
SpecialChars == {"|", "\\", " "}

RECURSIVE re_escape(_)
re_escape(s) ==
    IF s = <<>> THEN <<>>
    ELSE (IF Head(s) \in SpecialChars THEN <<"\\", Head(s)>> ELSE <<Head(s)>>)
         \o re_escape(Tail(s))

\* re.compile of an alternation of literals: "|" separates the alternatives,
\* a backslash makes the next character literal.
RECURSIVE ParseAlternatives(_, _, _)
ParseAlternatives(text, current, alternatives) ==
    IF text = <<>> THEN Append(alternatives, current)
    ELSE IF Head(text) = "\\" /\ Len(text) >= 2
    THEN ParseAlternatives(Tail(Tail(text)), Append(current, text[2]),
                           alternatives)
    ELSE IF Head(text) = "|"
    THEN ParseAlternatives(Tail(text), <<>>, Append(alternatives, current))
    ELSE ParseAlternatives(Tail(text), Append(current, Head(text)), alternatives)

re_compile(text) == ParseAlternatives(text, <<>>, <<>>)

NoMatch == [found |-> FALSE]

\* The first alternative, in the pattern's order, that occurs in s at offset
\* i; an empty match is not taken where it is not allowed.
RECURSIVE MatchAt(_, _, _, _, _)
MatchAt(alternatives, k, s, i, allowEmpty) ==
    IF k > Len(alternatives) THEN NoMatch
    ELSE LET alt == alternatives[k]
         IN  IF /\ i + Len(alt) <= Len(s)
                /\ SubSeq(s, i + 1, i + Len(alt)) = alt
                /\ (alt # <<>> \/ allowEmpty)
             THEN [found |-> TRUE, lo |-> i, hi |-> i + Len(alt)]
             ELSE MatchAt(alternatives, k + 1, s, i, allowEmpty)

\* pattern.search from offset start: the leftmost match.  After an empty
\* match the next one must advance: it may not be empty at the same offset.
RECURSIVE Search(_, _, _, _, _)
Search(alternatives, s, start, i, mustAdvance) ==
    IF i > Len(s) THEN NoMatch
    ELSE LET m == MatchAt(alternatives, 1, s, i, ~(mustAdvance /\ i = start))
         IN  IF m.found THEN m
             ELSE Search(alternatives, s, start, i + 1, mustAdvance)

\* The successive non-overlapping matches, at most limit of them (a negative
\* limit is no limit).
RECURSIVE FindAll(_, _, _, _, _)
FindAll(alternatives, s, start, mustAdvance, limit) ==
    IF limit = 0 THEN <<>>
    ELSE LET m == Search(alternatives, s, start, start, mustAdvance)
         IN  IF ~m.found THEN <<>>
             ELSE <<m>> \o FindAll(alternatives, s, m.hi, m.hi = m.lo,
                                   IF limit < 0 THEN limit ELSE limit - 1)

\* The text of s before, between and after the matches.
RECURSIVE Pieces(_, _, _)
Pieces(s, matches, from) ==
    IF matches = <<>> THEN <<SubSeq(s, from + 1, Len(s))>>
    ELSE <<SubSeq(s, from + 1, Head(matches).lo)>>
         \o Pieces(s, Tail(matches), Head(matches).hi)

\* pattern.split(s, maxsplit): maxsplit 0 means no limit.
re_split(text, s, maxsplit) ==
    LET matches == FindAll(re_compile(text), s, 0, FALSE,
                           IF maxsplit = 0 THEN 0 - 1 ELSE maxsplit)
    IN  Pieces(s, matches, 0)

\* self._replacements[key] of a dict kept as a sequence of <<key, value>>
RECURSIVE Lookup(_, _)
Lookup(items, key) ==
    IF Head(items)[1] = key THEN Head(items)[2] ELSE Lookup(Tail(items), key)

\* re.sub(regex, do_replace, haystack) with
\* do_replace = lambda match: self._replacements[match.group()]
RECURSIVE Substitute(_, _, _, _)
Substitute(items, s, matches, from) ==
    IF matches = <<>> THEN SubSeq(s, from + 1, Len(s))
    ELSE LET m == Head(matches)
         IN  SubSeq(s, from + 1, m.lo)
             \o Lookup(items, Str(SubSeq(s, m.lo + 1, m.hi))).str
             \o Substitute(items, s, Tail(matches), m.hi)

re_sub(text, items, s) ==
    Substitute(items, s, FindAll(re_compile(text), s, 0, FALSE, 0 - 1), 0)

---------------------------------------------------------------------------
(* split                                                                   *)

List(items) == [list |-> items]
is_iterable(x) == "list" \in DOMAIN x

Whitespace == {" "}

\* The offset of the first character at or after offset i that is not
\* (SkipSpaces) or is (WordEnd) whitespace; Len(s) when there is none.
RECURSIVE SkipSpaces(_, _)
SkipSpaces(s, i) ==
    IF i < Len(s) /\ s[i + 1] \in Whitespace THEN SkipSpaces(s, i + 1) ELSE i

RECURSIVE WordEnd(_, _)
WordEnd(s, i) ==
    IF i < Len(s) /\ s[i + 1] \notin Whitespace THEN WordEnd(s, i + 1) ELSE i

\* str.split(None, maxcount) from offset i: words between runs of
\* whitespace; once maxcount splits are made the rest, less its leading
\* whitespace, is the last word.  A negative maxcount is no limit.
RECURSIVE WhitespaceSplit(_, _, _)
WhitespaceSplit(s, i, maxcount) ==
    LET j == SkipSpaces(s, i)
    IN  IF j = Len(s) THEN <<>>
        ELSE IF maxcount = 0 THEN <<SubSeq(s, j + 1, Len(s))>>
        ELSE <<SubSeq(s, j + 1, WordEnd(s, j))>>
             \o WhitespaceSplit(s, WordEnd(s, j),
                                IF maxcount < 0 THEN maxcount ELSE maxcount - 1)

\* s.find(sep, i): the offset of the first occurrence at or after i, or -1.
RECURSIVE Find(_, _, _)
Find(s, sep, i) ==
    IF i + Len(sep) > Len(s) THEN 0 - 1
    ELSE IF SubSeq(s, i + 1, i + Len(sep)) = sep THEN i
    ELSE Find(s, sep, i + 1)

\* A literal split that drops the empty fragments.
RECURSIVE LiteralSplitNoEmpty(_, _, _, _)
LiteralSplitNoEmpty(s, sep, i, maxcount) ==
    LET pos == IF maxcount = 0 THEN 0 - 1 ELSE Find(s, sep, i)
        upto == IF pos < 0 THEN Len(s) ELSE pos
        word == IF upto > i THEN <<SubSeq(s, i + 1, upto)>> ELSE <<>>
    IN  IF pos < 0 THEN word
        ELSE word \o LiteralSplitNoEmpty(s, sep, pos + Len(sep),
                        IF maxcount < 0 THEN maxcount ELSE maxcount - 1)

\* str.split(sep, maxcount) from offset i for a non-empty sep: every
\* fragment between occurrences is kept, the empty ones too.
RECURSIVE LiteralSplit(_, _, _, _)
LiteralSplit(s, sep, i, maxcount) ==
    LET pos == IF maxcount = 0 THEN 0 - 1 ELSE Find(s, sep, i)
    IN  IF pos < 0 THEN <<SubSeq(s, i + 1, Len(s))>>
        ELSE <<SubSeq(s, i + 1, pos)>>
             \o LiteralSplit(s, sep, pos + Len(sep),
                             IF maxcount < 0 THEN maxcount ELSE maxcount - 1)

Strs(seqs) == [i \in 1..Len(seqs) |-> Str(seqs[i])]

\* The built-in s.split(by[, maxsplit]) for by None or a string.
StrSplit(s, by, maxcount) ==
    IF by = None THEN Ok(Strs(WhitespaceSplit(s, 0, maxcount)))
    ELSE IF by.str = <<>> THEN Raise("ValueError", "empty separator")
    ELSE Ok(Strs(LiteralSplit(s, by.str, 0, maxcount)))

\* The branch of split for a compiled pattern with the given text.
SplitByRegex(s, text, maxsplit) ==
    IF text = <<>> THEN StrSplit(s, Str(<<>>), 0 - 1)
    ELSE IF maxsplit = Num(0) THEN Ok(<<Str(s)>>)
    ELSE Ok(Strs(re_split(text, s, IF maxsplit = None THEN 0 ELSE maxsplit.int)))

\* by is None, a string, a compiled pattern, a list of values or anything
\* else; maxsplit is None or a natural number.
split(s, by, maxsplit) ==
    IF ~is_string(s) THEN ensure_string(s)
    ELSE IF by = None \/ is_string(by)
    THEN StrSplit(s.str, by, IF maxsplit = None THEN 0 - 1 ELSE maxsplit.int)
    ELSE IF is_regex(by) THEN SplitByRegex(s.str, by.regex, maxsplit)
    ELSE IF is_iterable(by)
    THEN IF by.list = <<>> THEN Raise("ValueError", "empty separator list")
         ELSE LET literals == EnsureStrings(by.list)
              IN  IF literals.exc # "none" THEN literals
                  ELSE IF s.str = <<>> THEN Ok(<<Str(<<>>)>>)
                  ELSE LET regex ==
                               join(Str(<<"|">>),
                                    [i \in 1..Len(literals.value) |->
                                        Str(re_escape(literals.value[i].str))],
                                    <<>>)
                       IN  SplitByRegex(s.str, regex.value.str, maxsplit)
    ELSE Raise("TypeError", "invalid separator")

---------------------------------------------------------------------------
(* camel_case                                                              *)

\* str.upper and str.lower of one character of the model's alphabet
Upper(c) == IF c = "a" THEN "A" ELSE IF c = "b" THEN "B" ELSE c
Lower(c) == IF c = "A" THEN "a" ELSE IF c = "B" THEN "b" ELSE c

\* str.capitalize: the first character upper-cased, the others lower-cased
Capitalize(w) ==
    [i \in 1..Len(w) |-> IF i = 1 THEN Upper(w[i]) ELSE Lower(w[i])]

\* A first word that is always capitalized, whatever capitalize is.
FirstWordCapitalized(first_word, capitalize) == Capitalize(first_word)

\* A first word that capitalize=False lower-cases as a whole.
FirstWordLowered(first_word, capitalize) ==
    IF capitalize = "True" THEN Capitalize(first_word)
    ELSE IF capitalize = "False"
    THEN [i \in 1..Len(first_word) |-> Lower(first_word[i])]
    ELSE first_word

\* What words[0] is set to: the first word as it stands in the text unless
\* capitalize is True or False.
FirstWord(first_word, capitalize) ==
    IF capitalize = "True" THEN Capitalize(first_word)
    ELSE IF capitalize = "False"
    THEN <<Lower(first_word[1])>> \o SliceFrom(first_word, 1)
    ELSE first_word

\* capitalize is one of the tokens "None", "True", "False".
camel_case(arg, capitalize) ==
    IF ~is_string(arg) THEN ensure_string(arg)
    ELSE IF arg.str = <<>> THEN Ok(arg)
    ELSE LET words == split(arg, None, None).value
             capitalized == [i \in 1..Len(words) |-> Str(Capitalize(words[i].str))]
             final == IF Len(words) > 0
                      THEN [capitalized EXCEPT
                              ![1] = Str(FirstWord(words[1].str, capitalize))]
                      ELSE capitalized
         IN  join(Str(<<>>), final, <<>>)

---------------------------------------------------------------------------
(* Replacer.  _replacements is the tuple or list of needles given to the   *)
(* constructor, [list |-> needles], until with_ makes it a dict,           *)
(* [dict |-> the <<needle, replacement>> pairs in the dict's order].       *)

Dict(items) == [dict |-> items]
is_mapping(r) == "dict" \in DOMAIN r

Keys(items) == [i \in 1..Len(items) |-> items[i][1]]

\* dict.fromkeys(needles, replacement): one entry per distinct needle, in
\* the order of first occurrence.
RECURSIVE FromKeys(_, _, _)
FromKeys(needles, replacement, items) ==
    IF needles = <<>> THEN items
    ELSE FromKeys(Tail(needles), replacement,
                  IF \E i \in 1..Len(items) : items[i][1] = Head(needles)
                  THEN items
                  ELSE Append(items, <<Head(needles), replacement>>))

\* The needles left in the dict's own order.
Unsorted(keys) == keys

\* Insertion of a key into a sequence sorted by descending length, after
\* the keys that are as long (the sort is stable).
RECURSIVE InsertByLength(_, _)
InsertByLength(sorted, key) ==
    IF sorted = <<>> THEN <<key>>
    ELSE IF Len(Head(sorted).str) >= Len(key.str)
    THEN <<Head(sorted)>> \o InsertByLength(Tail(sorted), key)
    ELSE <<key>> \o sorted

RECURSIVE SortInto(_, _)
SortInto(sorted, keys) ==
    IF keys = <<>> THEN sorted
    ELSE SortInto(InsertByLength(sorted, Head(keys)), Tail(keys))

\* sorted(self._replacements, key=len, reverse=True)
SortedByLengthDescending(keys) == SortInto(<<>>, keys)

\* str.replace(old, new): the occurrences of old, left to right and not
\* overlapping; an empty old matches before every character and at the end.
RECURSIVE StrReplace(_, _, _)
StrReplace(s, old, new) ==
    IF old = <<>>
    THEN IF s = <<>> THEN new
         ELSE new \o <<Head(s)>> \o StrReplace(Tail(s), old, new)
    ELSE LET pos == Find(s, old, 0)
         IN  IF pos < 0 THEN s
             ELSE SubSeq(s, 1, pos) \o new
                  \o StrReplace(SliceFrom(s, pos + Len(old)), old, new)

\* A with_ that stores the replacement before it checks the state.
with_StoresFirst(r, replacement) ==
    IF ~is_string(replacement)
    THEN [result |-> ensure_string(replacement), replacements |-> r]
    ELSE [result |-> IF is_mapping(r)
                     THEN Raise("ReplacementError",
                                "string replacements already provided")
                     ELSE Ok("self"),
          replacements |->
             Dict(FromKeys(IF is_mapping(r) THEN Keys(r.dict) ELSE r.list,
                           replacement, <<>>))]

\* A with_ that accepts a replacement in either state.
with_Unchecked(r, replacement) ==
    IF ~is_string(replacement)
    THEN [result |-> ensure_string(replacement), replacements |-> r]
    ELSE [result |-> Ok("self"),
          replacements |->
             Dict(FromKeys(IF is_mapping(r) THEN Keys(r.dict) ELSE r.list,
                           replacement, <<>>))]

\* Replacer.with_ on a Replacer whose _replacements is r: what the call
\* returns or raises, and _replacements after it.
with_(r, replacement) ==
    IF ~is_string(replacement)
    THEN [result |-> ensure_string(replacement), replacements |-> r]
    ELSE IF is_mapping(r)
    THEN [result |-> Raise("ReplacementError",
                           "string replacements already provided"),
          replacements |-> r]
    ELSE [result |-> Ok("self"),
          replacements |-> Dict(FromKeys(r.list, replacement, <<>>))]

\* The pattern of in_: the escaped needles, longest first, joined by "|".
NeedlesRegex(items) ==
    join(Str(<<"|">>),
         LET keys == SortedByLengthDescending(Keys(items))
         IN  [i \in 1..Len(keys) |-> Str(re_escape(keys[i].str))],
         <<>>).value.str

\* Replacer.in_ on a Replacer whose _replacements is r: what the call
\* returns or raises.  It assigns nothing.
in_(r, haystack) ==
    IF ~is_string(haystack) THEN ensure_string(haystack)
    ELSE IF ~is_mapping(r)
    THEN Raise("ReplacementError", "string replacements not provided")
    ELSE IF r.dict = <<>> THEN Ok(haystack)
    ELSE IF Len(r.dict) = 1
    THEN Ok(Str(StrReplace(haystack.str, r.dict[1][1].str, r.dict[1][2].str)))
    ELSE Ok(Str(re_sub(NeedlesRegex(r.dict), r.dict, haystack.str)))

---------------------------------------------------------------------------
(* replace.  A tuple is [tuple |-> its elements]; a Replacer object is     *)
(* [replacer |-> its _replacements].                                       *)

Tuple(items) == [tuple |-> items]
ReplacerOf(r) == [replacer |-> r]

\* is_pair(x): a tuple of exactly two elements
is_pair(x) == "tuple" \in DOMAIN x /\ Len(x.tuple) = 2

\* An emptiness test that lets every needle through.
IsEmptyNeedleNever(needle) == FALSE

\* "not needle" for a needle that is not None: the empty string, the empty
\* collection, the empty mapping and the number zero are false.
IsEmptyNeedle(needle) ==
    \/ is_string(needle) /\ needle.str = <<>>
    \/ is_iterable(needle) /\ needle.list = <<>>
    \/ is_mapping(needle) /\ needle.dict = <<>>
    \/ "tuple" \in DOMAIN needle /\ needle.tuple = <<>>
    \/ "int" \in DOMAIN needle /\ needle.int = 0

\* dict(needle) for a collection of pairs: one entry per distinct key at the
\* place of its first occurrence, with the value of its last occurrence.
RECURSIVE DictOfPairs(_, _)
DictOfPairs(pairs, items) ==
    IF pairs = <<>> THEN items
    ELSE LET key == Head(pairs).tuple[1]
             value == Head(pairs).tuple[2]
         IN  DictOfPairs(Tail(pairs),
                 IF \E i \in 1..Len(items) : items[i][1] = key
                 THEN [i \in 1..Len(items) |->
                         IF items[i][1] = key THEN <<key, value>> ELSE items[i]]
                 ELSE Append(items, <<key, value>>))

\* Lines 313-327 of replace: the Replacer constructed from the needle, or
\* the exception raised before any is constructed.
NewReplacer(needle) ==
    IF needle = None
    THEN Raise("TypeError", "replacement needle cannot be None")
    ELSE IF IsEmptyNeedle(needle)
    THEN Raise("ValueError", "replacement needle cannot be empty")
    ELSE IF is_string(needle) THEN Ok(ReplacerOf(List(<<needle>>)))
    ELSE IF ~(is_iterable(needle) \/ is_mapping(needle))
    THEN Raise("TypeError", "expected an iterable")
    ELSE IF is_mapping(needle) THEN Ok(ReplacerOf(needle))
    ELSE IF \A i \in 1..Len(needle.list) : is_pair(needle.list[i])
    THEN Ok(ReplacerOf(Dict(DictOfPairs(needle.list, <<>>))))
    ELSE IF ~(\A i \in 1..Len(needle.list) : is_string(needle.list[i]))
    THEN Raise("TypeError", "invalid replacement needle")
    ELSE Ok(ReplacerOf(needle))

\* replace(needle, with_, in_), None standing for an argument not given:
\* what the call returns or raises, the Replacer it constructed (None when
\* it constructed none) and that Replacer's _replacements after the call.
replace(needle, with, in) ==
    LET made == NewReplacer(needle)
    IN  IF made.exc # "none"
        THEN [result |-> made, constructed |-> None, replacements |-> None]
        ELSE LET r == made.value.replacer
                 given == IF with = None
                          THEN [result |-> Ok("self"), replacements |-> r]
                          ELSE with_(r, with)
             IN  [result |->
                     IF given.result.exc # "none" THEN given.result
                     ELSE IF in # None THEN in_(given.replacements, in)
                     ELSE Ok(ReplacerOf(given.replacements)),
                  constructed |-> made.value,
                  replacements |-> given.replacements]

---------------------------------------------------------------------------
(* random.  The function draws random numbers, so the model gives the set  *)
(* of the outcomes a call can have.                                        *)

\* string.ascii_letters and string.digits
AsciiLetters ==
    <<"a", "b", "c", "d", "e", "f", "g", "h", "i", "j", "k", "l", "m",
      "n", "o", "p", "q", "r", "s", "t", "u", "v", "w", "x", "y", "z",
      "A", "B", "C", "D", "E", "F", "G", "H", "I", "J", "K", "L", "M",
      "N", "O", "P", "Q", "R", "S", "T", "U", "V", "W", "X", "Y", "Z">>

DefaultChars == AsciiLetters \o Digits

\* randint(a, b): any integer of a..b; an empty range is a ValueError, and
\* an argument that is not an integer a ValueError or a TypeError, as the
\* version of the library has it.
randint(a, b) ==
    IF ~("int" \in DOMAIN a /\ "int" \in DOMAIN b)
    THEN {Raise("ValueError", "non-integer arg for randrange()"),
          Raise("TypeError", "non-integer arg for randrange()")}
    ELSE IF a.int > b.int
    THEN {Raise("ValueError", "empty range for randrange()")}
    ELSE {Ok(Num(n)) : n \in a.int..b.int}

\* Lines 432-440 of random: the lengths the string may get, or the exception.
DrawnLengths(length) ==
    IF is_pair(length)
    THEN randint(length.tuple[1], length.tuple[2])
    ELSE IF "int" \in DOMAIN length
    THEN IF ~(length.int > 0)
         THEN {Raise("ValueError", "random string length must be positive")}
         ELSE {Ok(length)}
    ELSE {Raise("TypeError", "random string length must be an integer")}

\* join('', (choice(chars) for _ in xrange(n))): xrange(n) is empty for
\* every n below one.
RandomStrings(alphabet, n) ==
    {Str(s) : s \in [1..Max(n, 0) -> {alphabet[i] : i \in 1..Len(alphabet)}]}

\* random(length, chars), None standing for chars not given: the set of
\* the outcomes the call can have.
random(length, chars) ==
    IF chars # None /\ ~is_string(chars) THEN {ensure_string(chars)}
    ELSE IF chars # None /\ chars.str = <<>>
    THEN {Raise("ValueError", "character set must not be empty")}
    ELSE LET alphabet == IF chars = None THEN DefaultChars ELSE chars.str
         IN  UNION {IF drawn.exc # "none" THEN {drawn}
                    ELSE {Ok(r) : r \in RandomStrings(alphabet, drawn.value.int)} :
                    drawn \in DrawnLengths(length)}

---------------------------------------------------------------------------
(* TestCaseMetaclass.  The body of a class, dict_, is the sequence of its  *)
(* entries in the order of definition: a method adorned with a stage       *)
(* decorator is [wrapper |-> TRUE, stage, order], a method named after a   *)
(* stage and defined plainly is [wrapper |-> FALSE, stage, order |-> 0].   *)
(* The method an adorned entry wraps is named by its place in the body.    *)

CLASS_STAGES == <<"setUpClass", "tearDownClass">>
INSTANCE_STAGES == <<"setUp", "tearDown">>

InSeq(x, seq) == \E i \in 1..Len(seq) : seq[i] = x

\* The wrappers of a stage, [method, order], in the order of dict_.
RECURSIVE WrappersOf(_, _, _)
WrappersOf(dict_, stage, i) ==
    IF i > Len(dict_) THEN <<>>
    ELSE (IF dict_[i].wrapper /\ dict_[i].stage = stage
          THEN <<[method |-> i, order |-> dict_[i].order]>> ELSE <<>>)
         \o WrappersOf(dict_, stage, i + 1)

\* The wrappers left in the order of dict_.
KeepOrderOfDict(wrappers) == wrappers

\* Insertion of a wrapper into a sequence sorted by ascending order, after
\* the wrappers of the same order (list.sort is stable).
RECURSIVE InsertByOrder(_, _)
InsertByOrder(sorted, mw) ==
    IF sorted = <<>> THEN <<mw>>
    ELSE IF Head(sorted).order <= mw.order
    THEN <<Head(sorted)>> \o InsertByOrder(Tail(sorted), mw)
    ELSE <<mw>> \o sorted

RECURSIVE SortWrappersInto(_, _)
SortWrappersInto(sorted, wrappers) ==
    IF wrappers = <<>> THEN sorted
    ELSE SortWrappersInto(InsertByOrder(sorted, Head(wrappers)), Tail(wrappers))

\* stage_method_wrappers.sort(key=attr_func('order'))
SortByOrder(wrappers) == SortWrappersInto(<<>>, wrappers)

\* "stage in dict_": the body defines a method of that name plainly.
DefinesStage(dict_, stage) ==
    \E i \in 1..Len(dict_) : ~dict_[i].wrapper /\ dict_[i].stage = stage

\* The loop of __new__ over the stages from the k-th on: the stage methods
\* generated so far are in generated, a function from stages to the methods
\* each is to call.
RECURSIVE NewClass(_, _, _)
NewClass(dict_, k, generated) ==
    LET stages == CLASS_STAGES \o INSTANCE_STAGES
    IN  IF k > Len(stages) THEN Ok([stage_methods |-> generated])
        ELSE LET stage == stages[k]
                 stage_method_wrappers == WrappersOf(dict_, stage, 1)
             IN  IF stage_method_wrappers = <<>>
                 THEN NewClass(dict_, k + 1, generated)
                 ELSE IF DefinesStage(dict_, stage)
                 THEN Raise("RuntimeError", "ambiguous test stage")
                 ELSE LET sorted == SortByOrder(stage_method_wrappers)
                          methods == [i \in 1..Len(sorted) |-> sorted[i].method]
                      IN  NewClass(dict_, k + 1,
                                   [s \in DOMAIN generated \cup {stage} |->
                                       IF s = stage THEN methods
                                       ELSE generated[s]])

\* TestCaseMetaclass.__new__(meta, name, bases, dict_)
__new__(dict_) == NewClass(dict_, 1, <<>>)

\* stage.startswith('setUp'), stage.startswith('tearDown')
is_setup(stage) == stage \in {"setUp", "setUpClass"}
is_teardown(stage) == stage \in {"tearDown", "tearDownClass"}

\* What a stage method is called on: the class or the instance.
Target(stage) == IF InSeq(stage, CLASS_STAGES) THEN "cls" ELSE "self"

---------------------------------------------------------------------------
(* The trim specification: one call of trim on arguments drawn from        *)
(* bounded sets.  The call record holds the arguments; the action applies  *)
(* the function and stores what it returned or raised.                     *)

Pending == [exc |-> "pending"]
NoMemo == [set |-> FALSE]

TrimChars == {"a", "b"}
TrimSubjects == {Str(x) : x \in StringsUpTo(TrimChars, MaxStr)} \cup {Num(1)}
TrimAffixes ==
    {Str(x) : x \in StringsUpTo(TrimChars, MaxAffix)} \cup {None, Num(1)}

\* The Replacer takes no part in the specifications of the functions.
ReplacerUnused ==
    /\ replacements = None
    /\ successes = 0
    /\ memo = NoMemo

InitTrim ==
    /\ ReplacerUnused
    /\ call \in [op : {"trim"}, s : TrimSubjects, prefix : TrimAffixes,
                 suffix : TrimAffixes, strict : BOOLEAN, done : {FALSE},
                 result : {Pending}]

Trim ==
    /\ call.op = "trim"
    /\ ~call.done
    /\ call' = [call EXCEPT
                  !.done = TRUE,
                  !.result = trim(call.s, call.prefix, call.suffix, call.strict)]
    /\ UNCHANGED <<replacements, successes, memo>>

NextTrim == Trim

SpecTrim == InitTrim /\ [][NextTrim]_vars

\* A finished trim call whose string arguments are a prefix only / a suffix only.
TrimmedPrefix ==
    /\ call.op = "trim" /\ call.done
    /\ is_string(call.s) /\ is_string(call.prefix) /\ call.suffix = None

TrimmedSuffix ==
    /\ call.op = "trim" /\ call.done
    /\ is_string(call.s) /\ is_string(call.suffix) /\ call.prefix = None

\* C7: trim removes exactly the given affix when it is present: whenever
\* s = p + x, trim(s, prefix=p) returns x, and whenever s = x + q,
\* trim(s, suffix=q) returns x, for strict and non-strict calls alike and
\* for the empty affix too.
C7_TrimRemovesAffix ==
    /\ TrimmedPrefix =>
         \A x \in StringsUpTo(TrimChars, MaxStr) :
            call.s.str = call.prefix.str \o x => call.result = Ok(Str(x))
    /\ TrimmedSuffix =>
         \A x \in StringsUpTo(TrimChars, MaxStr) :
            call.s.str = x \o call.suffix.str => call.result = Ok(Str(x))

\* C7 witness: the empty suffix was trimmed from a non-empty string, which
\* came back whole.
C7_Witness ==
    /\ TrimmedSuffix
    /\ call.suffix = Str(<<>>)
    /\ call.s = Str(<<"a", "b">>)
    /\ call.result = Ok(Str(<<"a", "b">>))

\* C8: when the requested affix is absent, a strict trim raises the
\* not-found ValueError and returns nothing, a non-strict trim returns s
\* unchanged; and whatever trim returns is s or s without exactly the
\* requested affix.
C8_TrimAbsentAffix ==
    /\ (TrimmedPrefix /\ ~startswith(call.s.str, call.prefix.str)) =>
         call.result =
            IF call.strict
            THEN Raise("ValueError", "string does not start with expected prefix")
            ELSE Ok(call.s)
    /\ (TrimmedSuffix /\ ~endswith(call.s.str, call.suffix.str)) =>
         call.result =
            IF call.strict
            THEN Raise("ValueError", "string does not end with expected suffix")
            ELSE Ok(call.s)
    /\ (call.op = "trim" /\ call.done /\ call.result.exc = "none") =>
         \/ call.result.value = call.s
         \/ /\ TrimmedPrefix
            /\ call.prefix.str \o call.result.value.str = call.s.str
         \/ /\ TrimmedSuffix
            /\ call.result.value.str \o call.suffix.str = call.s.str

\* C8 witness: a strict trim of a prefix the string does not start with
\* raised the not-found error.
C8_Witness ==
    /\ TrimmedPrefix
    /\ call.strict
    /\ call.s = Str(<<"a", "b">>)
    /\ call.prefix = Str(<<"b">>)
    /\ call.result.exc = "ValueError"

---------------------------------------------------------------------------
(* The split specification: one call of split on arguments drawn from      *)
(* bounded sets, and then join applied to what split returned, with the    *)
(* same delimiter.                                                         *)

SplitChars == {"a", "b", " ", "|"}
SplitSubjects == {Str(x) : x \in StringsUpTo(SplitChars, MaxStr)} \cup {Num(1)}

\* Literal delimiters, and the elements of delimiter collections.
DelimiterLiterals ==
    {<<>>, <<"a">>, <<"b">>, <<" ">>, <<"|">>, <<"a", "b">>, <<"a", "a">>}
CollectionElements ==
    {Str(<<>>), Str(<<"a">>), Str(<<"a", "b">>), Str(<<"|">>), Num(1)}
AlternativeLiterals == {<<>>, <<"a">>, <<"a", "b">>, <<" ">>, <<"|">>}

SeqsUpTo(S, n) == UNION {[1..k -> S] : k \in 0..n}

\* The pattern texts: one to MaxDelimiters escaped literals joined by "|".
PatternTexts ==
    {StrJoin(<<"|">>, [i \in 1..Len(alts) |-> re_escape(alts[i])]) :
        alts \in SeqsUpTo(AlternativeLiterals, MaxDelimiters) \ {<<>>}}

Delimiters ==
    {None, Num(1)}
    \cup {Str(d) : d \in DelimiterLiterals}
    \cup {Regex(text) : text \in PatternTexts}
    \cup {List(ds) : ds \in SeqsUpTo(CollectionElements, MaxDelimiters)}

Maxsplits == {None} \cup {Num(n) : n \in 0..MaxSplit}

InitSplit ==
    /\ ReplacerUnused
    /\ call \in [op : {"split"}, s : SplitSubjects, by : Delimiters,
                 maxsplit : Maxsplits, done : {FALSE}, result : {Pending},
                 joined : {Pending}]

Split ==
    /\ call.op = "split"
    /\ ~call.done
    /\ call' = [call EXCEPT
                  !.done = TRUE,
                  !.result = split(call.s, call.by, call.maxsplit)]
    /\ UNCHANGED <<replacements, successes, memo>>

\* join(by, split(s, by, maxsplit)) once split has returned its list
Rejoin ==
    /\ call.op = "split"
    /\ call.done
    /\ call.result.exc = "none"
    /\ call.joined = Pending
    /\ call' = [call EXCEPT !.joined = join(call.by, call.result.value, <<>>)]
    /\ UNCHANGED <<replacements, successes, memo>>

NextSplit == Split \/ Rejoin

SpecSplit == InitSplit /\ [][NextSplit]_vars

\* C4: for every string s and every non-empty literal delimiter d, with
\* maxsplit unspecified, join(d, split(s, by=d)) is s again.
C4_SplitJoinRoundTrip ==
    (/\ call.op = "split" /\ call.joined # Pending
     /\ is_string(call.s) /\ is_string(call.by) /\ call.by.str # <<>>
     /\ call.maxsplit = None)
    => call.joined = Ok(call.s)

\* C4 witness: "aab" was split by "a" into two empty fragments and "b" and
\* joined back to "aab".
C4_Witness ==
    /\ call.op = "split" /\ call.joined = Ok(Str(<<"a", "a", "b">>))
    /\ call.by = Str(<<"a">>)
    /\ call.maxsplit = None
    /\ call.result = Ok(<<Str(<<>>), Str(<<>>), Str(<<"b">>)>>)

\* The delimiter forms split accepts: None, a non-empty literal, a compiled
\* pattern with non-empty text, a non-empty collection of non-empty literals.
AcceptedDelimiter(by) ==
    \/ by = None
    \/ is_string(by) /\ by.str # <<>>
    \/ is_regex(by) /\ by.regex # <<>>
    \/ /\ is_iterable(by) /\ by.list # <<>>
       /\ \A i \in 1..Len(by.list) : is_string(by.list[i]) /\ by.list[i].str # <<>>

\* C5: split(s, by, maxsplit=0) returns exactly [s] for every non-empty
\* string s and every accepted delimiter form.
C5_MaxsplitZeroReturnsWhole ==
    (/\ call.op = "split" /\ call.done
     /\ is_string(call.s) /\ call.s.str # <<>>
     /\ call.maxsplit = Num(0)
     /\ AcceptedDelimiter(call.by))
    => call.result = Ok(<<call.s>>)

\* The empty delimiter forms: an empty collection, an empty literal, and a
\* compiled pattern that is empty or has an alternative matching "".
EmptyDelimiter(by) ==
    \/ by = List(<<>>)
    \/ by = Str(<<>>)
    \/ /\ is_regex(by)
       /\ \E k \in 1..Len(re_compile(by.regex)) : re_compile(by.regex)[k] = <<>>

\* C6: split never returns a list for an empty delimiter: every empty form
\* is rejected with a ValueError.
C6_EmptyDelimiterRejected ==
    (/\ call.op = "split" /\ call.done
     /\ is_string(call.s)
     /\ EmptyDelimiter(call.by))
    => call.result.exc = "ValueError"

\* The listings of the same delimiters in every order.
Reorderings(delimiters) ==
    {[i \in 1..Len(delimiters) |-> delimiters[f[i]]] :
        f \in Permutations(1..Len(delimiters))}

\* C14: for a non-empty string s and a non-empty collection of non-empty
\* literals, split(s, by=collection) is the same list of fragments for every
\* order in which the literals are listed.
C14_SplitOrderIrrelevant ==
    (/\ call.op = "split" /\ call.done
     /\ is_string(call.s) /\ call.s.str # <<>>
     /\ call.maxsplit = None
     /\ is_iterable(call.by) /\ call.by.list # <<>>
     /\ \A i \in 1..Len(call.by.list) :
           is_string(call.by.list[i]) /\ call.by.list[i].str # <<>>)
    => \A listed \in Reorderings(call.by.list) :
          split(call.s, List(listed), None) = call.result

---------------------------------------------------------------------------
(* The join specification: one call of join on arguments drawn from        *)
(* bounded sets.                                                           *)

JoinElements == {Str(<<>>), Str(<<"a">>), Num(1), Num(12), None}
JoinDelimiters == {Str(<<>>), Str(<<"-">>), Num(1)}
Policies ==
    {"raise", "True", "ignore", "None", "cast", "False", "replace", "strict"}
Substitutes ==
    {Str(<<"?">>), [callable |-> "str"], [callable |-> "same"], Num(1)}
Kwargs ==
    {<<>>}
    \cup {[errors |-> e] : e \in Policies}
    \cup {[errors |-> "replace", with_ |-> w] : w \in Substitutes}

InitJoin ==
    /\ ReplacerUnused
    /\ call \in [op : {"join"}, delimiter : JoinDelimiters,
                 iterable : SeqsUpTo(JoinElements, MaxItems), kwargs : Kwargs,
                 done : {FALSE}, result : {Pending}]

Join ==
    /\ call.op = "join"
    /\ ~call.done
    /\ call' = [call EXCEPT
                  !.done = TRUE,
                  !.result = join(call.delimiter, call.iterable, call.kwargs)]
    /\ UNCHANGED <<replacements, successes, memo>>

NextJoin == Join

SpecJoin == InitJoin /\ [][NextJoin]_vars

\* The delimiter-joined concatenation of strings, in their order.
RECURSIVE Concatenation(_, _)
Concatenation(d, strs) ==
    IF strs = <<>> THEN <<>>
    ELSE IF Len(strs) = 1 THEN strs[1]
    ELSE Concatenation(d, SubSeq(strs, 1, Len(strs) - 1)) \o d \o strs[Len(strs)]

\* What join returns for the elements xs once they are all strings, and the
\* type error it raises when one of them is not.
JoinedOrTypeError(d, xs) ==
    IF \A i \in 1..Len(xs) : is_string(xs[i])
    THEN Ok(Str(Concatenation(d, [i \in 1..Len(xs) |-> xs[i].str])))
    ELSE Raise("TypeError", "expected a string")

\* A finished join call with a string delimiter under the given policy.
Joined(policy) ==
    /\ call.op = "join" /\ call.done
    /\ is_string(call.delimiter)
    /\ \/ "errors" \in DOMAIN call.kwargs /\ call.kwargs.errors = policy
       \/ call.kwargs = <<>> /\ policy = "raise"

\* C9: join(d, xs, errors=policy) is the d-joined concatenation, in the
\* original order, of xs itself under 'raise' (a type error when an element
\* is not a string), of the string elements of xs under 'ignore', of the
\* textual forms of the elements under 'cast', and under 'replace' of xs
\* with every non-string element x replaced by the fixed string with_ or by
\* with_(x), the strings being kept (a type error when with_(x) is not a
\* string).
C9_JoinPolicies ==
    LET d == call.delimiter.str
        xs == call.iterable
    IN  /\ Joined("raise") => call.result = JoinedOrTypeError(d, xs)
        /\ Joined("ignore") =>
             call.result = JoinedOrTypeError(d, SelectSeq(xs, is_string))
        /\ Joined("cast") =>
             call.result =
                Ok(Str(Concatenation(d, [i \in 1..Len(xs) |->
                    IF is_string(xs[i]) THEN xs[i].str
                    ELSE IF xs[i] = Num(1) THEN <<"1">>
                    ELSE IF xs[i] = Num(12) THEN <<"1", "2">>
                    ELSE <<"N", "o", "n", "e">>])))
        /\ (Joined("replace") /\ "with_" \in DOMAIN call.kwargs
            /\ is_string(call.kwargs.with_)) =>
             call.result =
                JoinedOrTypeError(d, [i \in 1..Len(xs) |->
                    IF is_string(xs[i]) THEN xs[i] ELSE call.kwargs.with_])
        /\ (Joined("replace") /\ "with_" \in DOMAIN call.kwargs
            /\ is_callable(call.kwargs.with_)) =>
             call.result =
                JoinedOrTypeError(d, [i \in 1..Len(xs) |->
                    IF is_string(xs[i]) THEN xs[i]
                    ELSE Apply(call.kwargs.with_, xs[i])])

\* C9 witness: under 'replace' with the fixed string "?", [1, "a", None]
\* joined by "-" gave "?-a-?".
C9_Witness ==
    /\ Joined("replace")
    /\ call.kwargs = [errors |-> "replace", with_ |-> Str(<<"?">>)]
    /\ call.delimiter = Str(<<"-">>)
    /\ call.iterable = <<Num(1), Str(<<"a">>), None>>
    /\ call.result = Ok(Str(<<"?", "-", "a", "-", "?">>))

---------------------------------------------------------------------------
(* The camel_case specification: one call of camel_case on arguments drawn *)
(* from bounded sets.                                                      *)

CamelChars == {"a", "A", "b", " "}
CamelSubjects == {Str(x) : x \in StringsUpTo(CamelChars, MaxText)} \cup {Num(1)}

InitCamel ==
    /\ ReplacerUnused
    /\ call \in [op : {"camel_case"}, arg : CamelSubjects,
                 capitalize : {"None", "True", "False"}, done : {FALSE},
                 result : {Pending}]

CamelCase ==
    /\ call.op = "camel_case"
    /\ ~call.done
    /\ call' = [call EXCEPT
                  !.done = TRUE,
                  !.result = camel_case(call.arg, call.capitalize)]
    /\ UNCHANGED <<replacements, successes, memo>>

NextCamel == CamelCase

SpecCamel == InitCamel /\ [][NextCamel]_vars

\* A finished camel_case call on a string with capitalize left at None.
CamelDefault ==
    /\ call.op = "camel_case" /\ call.done
    /\ is_string(call.arg)
    /\ call.capitalize = "None"

\* C10 as stated: with capitalize=None the result is that of capitalize=True.
C10_DefaultIsCapitalized ==
    CamelDefault => call.result = camel_case(call.arg, "True")

\* The words of a text: its maximal runs of characters that are not
\* whitespace, in order.
Words(text) ==
    LET starts == {i \in 1..Len(text) :
                     /\ text[i] \notin Whitespace
                     /\ (i = 1 \/ text[i - 1] \in Whitespace)}
        end(i) == CHOOSE j \in i..Len(text) :
                     /\ \A k \in i..j : text[k] \notin Whitespace
                     /\ (j = Len(text) \/ text[j + 1] \in Whitespace)
        RECURSIVE InOrder(_)
        InOrder(S) ==
            IF S = {} THEN <<>>
            ELSE LET i == CHOOSE x \in S : \A y \in S : x <= y
                 IN  <<SubSeq(text, i, end(i))>> \o InOrder(S \ {i})
    IN  InOrder(starts)

\* C10, amended: with capitalize=None the first word is left exactly as it
\* stands in the text and every later word has its first character
\* upper-cased and the rest lower-cased; so the result is that of
\* capitalize=True exactly when the text has no word or its first word is
\* already in that form.
C10_DefaultKeepsFirstWord ==
    CamelDefault =>
        LET words == Words(call.arg.str)
            cased == [i \in 1..Len(words) |->
                        IF i = 1 THEN words[i] ELSE Capitalize(words[i])]
        IN  /\ call.result = Ok(Str(Concatenation(<<>>, cased)))
            /\ (call.result = camel_case(call.arg, "True"))
                 <=> (words = <<>> \/ words[1] = Capitalize(words[1]))

\* C10 witness: "a b" with capitalize=None gave "aB".
C10_Witness ==
    /\ CamelDefault
    /\ call.arg = Str(<<"a", " ", "b">>)
    /\ call.result = Ok(Str(<<"a", "B">>))

\* A finished camel_case call on a string with capitalize given as a
\* boolean.
CamelForced ==
    /\ call.op = "camel_case" /\ call.done
    /\ is_string(call.arg)
    /\ call.capitalize \in {"True", "False"}

\* str.lower of a whole word
LowerCased(w) == [i \in 1..Len(w) |-> Lower(w[i])]

\* C11 as stated: with capitalize=True the result is the words of the text,
\* each capitalized, with nothing between them; with capitalize=False the
\* same except that the first word is lower-cased as a whole; the empty text
\* is returned as it is.
C11_FalseLowersFirstWord ==
    CamelForced =>
        LET words == Words(call.arg.str)
            cased == [i \in 1..Len(words) |->
                        IF i = 1 /\ call.capitalize = "False"
                        THEN LowerCased(words[i]) ELSE Capitalize(words[i])]
        IN  /\ call.result = Ok(Str(Concatenation(<<>>, cased)))
            /\ call.arg.str = <<>> => call.result = Ok(call.arg)

\* C11, amended: with capitalize=True the result is the words of the text,
\* each capitalized, with nothing between them; with capitalize=False the
\* same except that the first word has its first character lower-cased and
\* its other characters left as they stand in the text; the empty text is
\* returned as it is.
C11_FalseLowersFirstLetter ==
    CamelForced =>
        LET words == Words(call.arg.str)
            cased == [i \in 1..Len(words) |->
                        IF i = 1 /\ call.capitalize = "False"
                        THEN [k \in 1..Len(words[i]) |->
                                IF k = 1 THEN Lower(words[i][k])
                                ELSE words[i][k]]
                        ELSE Capitalize(words[i])]
        IN  /\ call.result = Ok(Str(Concatenation(<<>>, cased)))
            /\ call.arg.str = <<>> => call.result = Ok(call.arg)

\* C11 witness: "AA b" with capitalize=False gave "aAB": only the first
\* letter of the first word was lowered.
C11_Witness ==
    /\ CamelForced
    /\ call.arg = Str(<<"A", "A", " ", "b">>)
    /\ call.capitalize = "False"
    /\ call.result = Ok(Str(<<"a", "A", "B">>))

---------------------------------------------------------------------------
(* The Replacer specification: one Replacer object, constructed from a     *)
(* tuple or list of needles or from a mapping, and any sequence of with_   *)
(* and in_ calls on it.                                                    *)

ReplacerChars == {"a", "b"}
Needles == {Str(<<"a">>), Str(<<"b">>), Str(<<"a", "b">>)}
ReplacementStrs == {Str(<<>>), Str(<<"a">>), Str(<<"b">>)}

\* The dicts of at most MaxNeedles needles, as sequences of pairs with
\* distinct keys.
Mappings ==
    {m \in SeqsUpTo(Needles \X ReplacementStrs, MaxNeedles) :
        \A i, j \in 1..Len(m) : m[i][1] = m[j][1] => i = j}

\* Replacer.__init__(replacements): _replacements is what was given.
Constructed ==
    {List(needles) : needles \in SeqsUpTo(Needles, MaxNeedles)}
    \cup {Dict(m) : m \in Mappings}

Haystacks ==
    {Str(h) : h \in StringsUpTo(ReplacerChars, MaxHaystack)} \cup {Num(1)}
ReplacementArgs == ReplacementStrs \cup {Num(1)}

NoCall == [op |-> "none"]

Init ==
    /\ replacements \in Constructed
    /\ call = NoCall
    /\ successes = 0
    /\ memo = NoMemo

\* replacer.with_(replacement)
With ==
    \E replacement \in ReplacementArgs :
        LET out == with_(replacements, replacement)
        IN  /\ replacements' = out.replacements
            /\ call' = [op |-> "with_", arg |-> replacement,
                        result |-> out.result]
            /\ successes' =
                 IF out.result.exc = "none" /\ successes < MaxSuccesses
                 THEN successes + 1 ELSE successes
            /\ memo' = IF memo.set /\ out.result.exc # "none"
                       THEN [memo EXCEPT !.failed = TRUE] ELSE memo

\* The haystacks whose first result the history keeps.
Remembered == {Str(<<"a", "b">>), Str(<<"a", "a", "b">>)}

\* replacer.in_(haystack); the history keeps the first successful call on
\* a remembered haystack, and whether a with_ has failed since.
In ==
    \E haystack \in Haystacks :
        LET result == in_(replacements, haystack)
        IN  /\ call' = [op |-> "in_", arg |-> haystack, result |-> result]
            /\ memo' = IF /\ result.exc = "none" /\ ~memo.set
                          /\ haystack \in Remembered
                       THEN [set |-> TRUE, haystack |-> haystack,
                             value |-> result.value, failed |-> FALSE]
                       ELSE memo
            /\ UNCHANGED <<replacements, successes>>

Next == With \/ In

Spec == Init /\ [][Next]_vars

\* The needle occurs in the haystack h at offset i.
OccursAt(needle, h, i) ==
    /\ i + Len(needle) <= Len(h)
    /\ SubSeq(h, i + 1, i + Len(needle)) = needle

\* One left-to-right scan of h from offset i: where needles occur, the
\* longest of them is consumed and its replacement emitted; elsewhere one
\* character is copied.
RECURSIVE Scan(_, _, _)
Scan(items, h, i) ==
    IF i >= Len(h) THEN <<>>
    ELSE LET here == {k \in 1..Len(items) : OccursAt(items[k][1].str, h, i)}
         IN  IF here = {} THEN <<h[i + 1]>> \o Scan(items, h, i + 1)
             ELSE LET k == CHOOSE x \in here : \A y \in here :
                                Len(items[y][1].str) <= Len(items[x][1].str)
                  IN  items[k][2].str \o Scan(items, h, i + Len(items[k][1].str))

\* C1: on a complete Replacer whose needles are non-empty, in_(h) is the
\* result of one left-to-right scan of h that consumes the longest needle
\* occurring at each position and never matches emitted text again.
C1_InIsOneScan ==
    (/\ call.op = "in_" /\ is_string(call.arg)
     /\ is_mapping(replacements)
     /\ \A k \in 1..Len(replacements.dict) : replacements.dict[k][1].str # <<>>)
    => call.result = Ok(Str(Scan(replacements.dict, call.arg.str, 0)))

\* C1 witness: {"a": "b", "ab": ""} applied to "aab" gave "b": "a" was
\* replaced at the first position, the longer "ab" at the second.
C1_Witness ==
    /\ call.op = "in_"
    /\ replacements = Dict(<<<<Str(<<"a">>), Str(<<"b">>)>>,
                             <<Str(<<"a", "b">>), Str(<<>>)>>>>)
    /\ call.arg = Str(<<"a", "a", "b">>)
    /\ call.result = Ok(Str(<<"b">>))

\* C2 as stated: while the Replacer is pending every in_ raises
\* ReplacementError; a with_ with a string replacement succeeds exactly
\* from the pending state and makes the Replacer complete; every with_ on a
\* complete Replacer raises ReplacementError; a complete Replacer stays
\* complete and at most one with_ ever succeeds.
C2_Lifecycle ==
    /\ [][/\ (call'.op = "in_" /\ ~is_mapping(replacements))
               => call'.result.exc = "ReplacementError"
          /\ (call'.op = "with_" /\ is_string(call'.arg))
               => (call'.result.exc = "none" <=> ~is_mapping(replacements))
          /\ (call'.op = "with_" /\ call'.result.exc = "none")
               => is_mapping(replacements')
          /\ (call'.op = "with_" /\ is_mapping(replacements))
               => call'.result.exc = "ReplacementError"
          /\ is_mapping(replacements) => is_mapping(replacements')]_vars
    /\ [](successes <= 1)

\* C2, amended: the same for calls whose argument is a string; an in_ or a
\* with_ whose argument is not a string raises TypeError in either state
\* and leaves the state as it is.
C2_LifecycleOfStringCalls ==
    /\ [][/\ (call'.op = "in_" /\ ~is_mapping(replacements))
               => call'.result.exc =
                     IF is_string(call'.arg) THEN "ReplacementError"
                     ELSE "TypeError"
          /\ (call'.op = "with_" /\ is_string(call'.arg))
               => (call'.result.exc = "none" <=> ~is_mapping(replacements))
          /\ (call'.op = "with_" /\ call'.result.exc = "none")
               => is_mapping(replacements')
          /\ (call'.op = "with_" /\ is_mapping(replacements))
               => call'.result.exc =
                     IF is_string(call'.arg) THEN "ReplacementError"
                     ELSE "TypeError"
          /\ (call'.op \in {"in_", "with_"} /\ ~is_string(call'.arg))
               => (call'.result.exc = "TypeError"
                   /\ replacements' = replacements)
          /\ is_mapping(replacements) => is_mapping(replacements')]_vars
    /\ [](successes <= 1)

\* C2 witness: one with_ has succeeded and a later with_, given a string,
\* raised ReplacementError on the now complete Replacer.
C2_Witness ==
    /\ successes = 1
    /\ is_mapping(replacements)
    /\ call.op = "with_" /\ is_string(call.arg)
    /\ call.result.exc = "ReplacementError"

\* C3: _replacements changes only in a with_ that succeeds on a pending
\* Replacer: every in_ and every with_ that raises leaves it as it was; so
\* on a complete Replacer in_(h) returns for the same h the string it
\* returned before, whatever calls were made in between.
C3_OnlyWithChangesTable ==
    /\ [][/\ replacements' # replacements
               => (call'.op = "with_" /\ call'.result.exc = "none"
                   /\ ~is_mapping(replacements))
          /\ (call'.op = "in_" \/ call'.result.exc # "none")
               => replacements' = replacements]_vars
    /\ []((/\ call.op = "in_" /\ call.result.exc = "none"
           /\ memo.set /\ call.arg = memo.haystack)
          => call.result.value = memo.value)

\* C3 witness: after an in_ that returned a string and a with_ that failed
\* since, in_ on the same haystack returned that string.
C3_Witness ==
    /\ memo.set /\ memo.failed
    /\ memo.value # memo.haystack
    /\ call.op = "in_" /\ call.arg = memo.haystack
    /\ call.result = Ok(memo.value)

---------------------------------------------------------------------------
(* The replace specification: one call of replace on arguments drawn from  *)
(* bounded sets.  The Replacer it constructs is the one Replacer object of *)
(* the model; none exists before the call.                                 *)

\* The elements of needle collections: literals, pairs, and elements that
\* are neither (a number, a tuple of one element, a list of two strings).
NeedleElements ==
    {Str(<<>>), Str(<<"a">>), Str(<<"a", "b">>), Num(1),
     Tuple(<<Str(<<"a">>), Str(<<"b">>)>>),
     Tuple(<<Str(<<"a">>), Str(<<>>)>>),
     Tuple(<<Str(<<"a", "b">>), Str(<<"a">>)>>),
     Tuple(<<Str(<<"a">>)>>),
     List(<<Str(<<"a">>), Str(<<"b">>)>>)}

ReplaceNeedles ==
    {None, Num(0), Num(1), Str(<<>>)}
    \cup Needles
    \cup {List(elements) : elements \in SeqsUpTo(NeedleElements, MaxNeedles)}
    \cup {Dict(m) : m \in Mappings}

ReplaceWith == {None} \cup ReplacementArgs
ReplaceIn == {None, Num(1), Str(<<>>)} \cup Remembered

InitReplace ==
    /\ ReplacerUnused
    /\ call \in [op : {"replace"}, needle : ReplaceNeedles, with_ : ReplaceWith,
                 in_ : ReplaceIn, done : {FALSE}, result : {Pending},
                 constructed : {None}]

Replace ==
    /\ call.op = "replace"
    /\ ~call.done
    /\ LET out == replace(call.needle, call.with_, call.in_)
       IN  /\ call' = [call EXCEPT !.done = TRUE,
                                   !.result = out.result,
                                   !.constructed = out.constructed]
           /\ replacements' = out.replacements
    /\ UNCHANGED <<successes, memo>>

NextReplace == Replace

SpecReplace == InitReplace /\ [][NextReplace]_vars

\* The shapes of needle replace accepts.
LiteralNeedle(n) == is_string(n) /\ n.str # <<>>
LiteralsNeedle(n) ==
    /\ is_iterable(n) /\ n.list # <<>>
    /\ \A i \in 1..Len(n.list) : is_string(n.list[i])
PairsNeedle(n) ==
    /\ is_iterable(n) /\ n.list # <<>>
    /\ \A i \in 1..Len(n.list) :
          "tuple" \in DOMAIN n.list[i] /\ Len(n.list[i].tuple) = 2
MappingNeedle(n) == is_mapping(n) /\ n.dict # <<>>

\* The table holds exactly the keys of the pairs, each with the replacement
\* of the last pair that names it.
TableOfPairs(table, pairs) ==
    /\ {table[k][1] : k \in 1..Len(table)} =
         {pairs[i].tuple[1] : i \in 1..Len(pairs)}
    /\ \A k, l \in 1..Len(table) : table[k][1] = table[l][1] => k = l
    /\ \A k \in 1..Len(table) :
          LET last == CHOOSE i \in 1..Len(pairs) :
                         /\ pairs[i].tuple[1] = table[k][1]
                         /\ \A j \in (i + 1)..Len(pairs) :
                               pairs[j].tuple[1] # table[k][1]
          IN  table[k][2] = pairs[last].tuple[2]

\* C12: replace rejects, with no Replacer constructed, every needle that is
\* None, empty, or neither a literal, a collection of literals only, a
\* collection of pairs only, nor a mapping; a literal becomes a pending
\* Replacer of that one needle, a collection of literals a pending Replacer
\* of them, a collection of pairs or a mapping a complete Replacer; and that
\* Replacer is what replace returns when neither with_ nor in_ is given.
C12_ReplaceNeedleShapes ==
    (call.op = "replace" /\ call.done) =>
        LET n == call.needle
            accepted == \/ LiteralNeedle(n) \/ LiteralsNeedle(n)
                        \/ PairsNeedle(n) \/ MappingNeedle(n)
        IN  /\ ~accepted =>
                  /\ call.result.exc \in {"TypeError", "ValueError"}
                  /\ call.constructed = None
                  /\ replacements = None
            /\ LiteralNeedle(n) => call.constructed = ReplacerOf(List(<<n>>))
            /\ LiteralsNeedle(n) => call.constructed = ReplacerOf(n)
            /\ PairsNeedle(n) =>
                  /\ call.constructed # None
                  /\ is_mapping(call.constructed.replacer)
                  /\ TableOfPairs(call.constructed.replacer.dict, n.list)
            /\ MappingNeedle(n) => call.constructed = ReplacerOf(n)
            /\ (accepted /\ call.with_ = None /\ call.in_ = None) =>
                  /\ call.result = Ok(call.constructed)
                  /\ replacements = call.constructed.replacer

\* C12 witness: a collection mixing the literal "a" with the pair
\* ("a", "b") was rejected with a TypeError although a replacement and a
\* haystack were given, and no Replacer was constructed.
C12_Witness ==
    /\ call.op = "replace" /\ call.done
    /\ call.needle = List(<<Str(<<"a">>),
                            Tuple(<<Str(<<"a">>), Str(<<"b">>)>>)>>)
    /\ call.with_ = Str(<<"b">>)
    /\ call.in_ = Str(<<"a", "b">>)
    /\ call.result.exc = "TypeError"
    /\ replacements = None

---------------------------------------------------------------------------
(* The random specification: one call of random on arguments drawn from    *)
(* bounded sets; the action takes any of the outcomes the call can have.   *)

\* The integers given as a length or as an end of a pair.
LengthValues == {Num(n) : n \in (0 - 1)..MaxLength}

\* The lengths given: integers, pairs, and other shapes (None, a string, a
\* pair with a string in it, tuples of one and of three elements).
RandomLengths ==
    LengthValues
    \cup {Tuple(<<lo, hi>>) : lo \in LengthValues, hi \in LengthValues}
    \cup {None, Str(<<"a", "b">>), Tuple(<<Str(<<"a">>), Num(1)>>),
          Tuple(<<Num(1)>>), Tuple(<<Num(1), Num(1), Num(1)>>)}

RandomChars ==
    {None, Num(1), Str(<<>>), Str(<<"a">>), Str(<<"a", "b">>),
     Str(<<"a", "a", "|">>)}

InitRandom ==
    /\ ReplacerUnused
    /\ call \in [op : {"random"}, length : RandomLengths, chars : RandomChars,
                 done : {FALSE}, result : {Pending}]

Random ==
    /\ call.op = "random"
    /\ ~call.done
    /\ \E outcome \in random(call.length, call.chars) :
          call' = [call EXCEPT !.done = TRUE, !.result = outcome]
    /\ UNCHANGED <<replacements, successes, memo>>

NextRandom == Random

SpecRandom == InitRandom /\ [][NextRandom]_vars

\* The characters a call of random may use.
CharsOf(chars) ==
    IF chars = None
    THEN {"a", "b", "c", "d", "e", "f", "g", "h", "i", "j", "k", "l", "m",
          "n", "o", "p", "q", "r", "s", "t", "u", "v", "w", "x", "y", "z",
          "A", "B", "C", "D", "E", "F", "G", "H", "I", "J", "K", "L", "M",
          "N", "O", "P", "Q", "R", "S", "T", "U", "V", "W", "X", "Y", "Z",
          "0", "1", "2", "3", "4", "5", "6", "7", "8", "9"}
    ELSE {chars.str[i] : i \in 1..Len(chars.str)}

IsInteger(x) == "int" \in DOMAIN x
IsIntegerPair(x) ==
    /\ "tuple" \in DOMAIN x /\ Len(x.tuple) = 2
    /\ IsInteger(x.tuple[1]) /\ IsInteger(x.tuple[2])

\* C13: every string random(length, chars) returns consists of characters
\* of chars (by default the ASCII letters and digits) and has length n for
\* a positive integer length n, and a length within min..max for a pair
\* (min, max); an empty chars raises ValueError; with chars not given or a
\* non-empty string, an integer length below one raises ValueError and a
\* length that is neither an integer nor a pair raises TypeError.
C13_RandomLengthAndChars ==
    (call.op = "random" /\ call.done) =>
        LET length == call.length
            valid == call.chars = None
                     \/ (is_string(call.chars) /\ call.chars.str # <<>>)
        IN  /\ call.result.exc = "none" =>
                  LET s == call.result.value.str
                  IN  /\ valid
                      /\ \A i \in 1..Len(s) : s[i] \in CharsOf(call.chars)
                      /\ IsInteger(length) =>
                            (length.int > 0 /\ Len(s) = length.int)
                      /\ IsIntegerPair(length) =>
                            /\ length.tuple[1].int <= Len(s)
                            /\ Len(s) <= length.tuple[2].int
            /\ call.chars = Str(<<>>) => call.result.exc = "ValueError"
            /\ (valid /\ IsInteger(length) /\ length.int <= 0)
                  => call.result.exc = "ValueError"
            /\ (valid /\ ~IsInteger(length)
                      /\ ~("tuple" \in DOMAIN length /\ Len(length.tuple) = 2))
                  => call.result.exc = "TypeError"

---------------------------------------------------------------------------
(* The test case specification: one subclass of TestCase is created from a *)
(* class body drawn from a bounded set, and its generated stage methods    *)
(* are invoked, any number of times, a call at a time.  The call record    *)
(* holds the body, the class, the position in the running stage method     *)
(* and the log of the calls that stage method has made.                    *)

Stages == {"setUpClass", "tearDownClass", "setUp", "tearDown"}

BodyEntries ==
    {[wrapper |-> TRUE, stage |-> stage, order |-> order] :
        stage \in Stages, order \in 1..MaxOrder}
    \cup {[wrapper |-> FALSE, stage |-> stage, order |-> 0] : stage \in Stages}

\* The class bodies: a name is defined once, so a stage method is defined
\* plainly at most once.
Bodies ==
    {dict_ \in SeqsUpTo(BodyEntries, MaxEntries) :
        \A i, j \in 1..Len(dict_) :
            (~dict_[i].wrapper /\ dict_[i] = dict_[j]) => i = j}

InitTestCase ==
    /\ ReplacerUnused
    /\ call \in [op : {"testcase"}, dict_ : Bodies, pc : {"body"},
                 result : {Pending}, stage : {"none"}, next : {1},
                 log : {<<>>}]

\* class X(TestCase): the metaclass creates the class or raises.
CreateClass ==
    /\ call.op = "testcase"
    /\ call.pc = "body"
    /\ LET created == __new__(call.dict_)
       IN  call' = [call EXCEPT
                      !.result = created,
                      !.pc = IF created.exc = "none" THEN "idle" ELSE "rejected"]
    /\ UNCHANGED <<replacements, successes, memo>>

\* A generated stage method is entered.
InvokeStage ==
    /\ call.op = "testcase"
    /\ call.pc \in {"idle", "returned"}
    /\ \E stage \in DOMAIN call.result.value.stage_methods :
          call' = [call EXCEPT
                     !.stage = stage, !.next = 1, !.log = <<>>,
                     !.pc = IF is_setup(stage) THEN "super" ELSE "methods"]
    /\ UNCHANGED <<replacements, successes, memo>>

\* The call of the superclass' stage method: on the superclass for a class
\* stage, with the instance for an instance stage.
SuperCall(stage) ==
    [callee |-> "super", method |-> 0,
     on |-> IF InSeq(stage, CLASS_STAGES) THEN "super_" ELSE "self"]

\* if is_setup: getattr(super_, stage)(...)
CallSuperBefore ==
    /\ call.op = "testcase"
    /\ call.pc = "super"
    /\ call' = [call EXCEPT !.log = Append(@, SuperCall(call.stage)),
                            !.pc = "methods"]
    /\ UNCHANGED <<replacements, successes, memo>>

\* One turn of the loop of invoke_methods: method(target)
CallMethod ==
    /\ call.op = "testcase"
    /\ call.pc = "methods"
    /\ LET methods == call.result.value.stage_methods[call.stage]
       IN  /\ call.next <= Len(methods)
           /\ call' = [call EXCEPT
                          !.log = Append(@, [callee |-> "method",
                                             method |-> methods[call.next],
                                             on |-> Target(call.stage)]),
                          !.next = @ + 1]
    /\ UNCHANGED <<replacements, successes, memo>>

\* if is_teardown: getattr(super_, stage)(...), after the loop
CallSuperAfter ==
    /\ call.op = "testcase"
    /\ call.pc = "methods"
    /\ call.next > Len(call.result.value.stage_methods[call.stage])
    /\ is_teardown(call.stage)
    /\ call' = [call EXCEPT !.log = Append(@, SuperCall(call.stage)),
                            !.pc = "returned"]
    /\ UNCHANGED <<replacements, successes, memo>>

\* The end of a stage method that is not a teardown.
ReturnFromStage ==
    /\ call.op = "testcase"
    /\ call.pc = "methods"
    /\ call.next > Len(call.result.value.stage_methods[call.stage])
    /\ ~is_teardown(call.stage)
    /\ call' = [call EXCEPT !.pc = "returned"]
    /\ UNCHANGED <<replacements, successes, memo>>

NextTestCase ==
    \/ CreateClass
    \/ InvokeStage
    \/ CallSuperBefore
    \/ CallMethod
    \/ CallSuperAfter
    \/ ReturnFromStage

SpecTestCase == InitTestCase /\ [][NextTestCase]_vars

\* The places of the body that hold a method decorated for the stage.
Decorated(dict_, stage) ==
    {i \in 1..Len(dict_) : dict_[i].wrapper /\ dict_[i].stage = stage}

\* The places of the log where a decorated method was called, and where
\* the superclass' stage method was.
MethodCalls(log) == {k \in 1..Len(log) : log[k].callee = "method"}
SuperCalls(log) == {k \in 1..Len(log) : log[k].callee = "super"}

\* C15: a class body that both defines a stage method and decorates a
\* method for that stage is rejected with RuntimeError when the class is
\* created, and no other body is; a created class has a generated stage
\* method exactly for the stages with decorated methods; an invocation of
\* it never calls a decorated method twice nor one of another stage, calls
\* them in ascending order, calls the superclass' stage method before all
\* of them for setUp and setUpClass and after all of them for tearDown and
\* tearDownClass, and has called every one of them, and the superclass'
\* stage method once, when it returns.
C15_StageMethodsInOrder ==
    (call.op = "testcase" /\ call.pc # "body") =>
        LET dict_ == call.dict_
            ambiguous == \E stage \in Stages :
                            /\ Decorated(dict_, stage) # {}
                            /\ \E i \in 1..Len(dict_) :
                                  ~dict_[i].wrapper /\ dict_[i].stage = stage
            log == call.log
        IN  /\ call.pc = "rejected" <=> ambiguous
            /\ ambiguous => call.result.exc = "RuntimeError"
            /\ ~ambiguous =>
                  /\ call.result.exc = "none"
                  /\ DOMAIN call.result.value.stage_methods =
                       {stage \in Stages : Decorated(dict_, stage) # {}}
            /\ call.pc \in {"super", "methods", "returned"} =>
                  /\ \A k \in MethodCalls(log) :
                        /\ log[k].method \in Decorated(dict_, call.stage)
                        /\ log[k].on = (IF call.stage \in {"setUp", "tearDown"}
                                        THEN "self" ELSE "cls")
                        /\ \A l \in MethodCalls(log) :
                              /\ log[k].method = log[l].method => k = l
                              /\ k < l => dict_[log[k].method].order
                                             <= dict_[log[l].method].order
                  /\ Cardinality(SuperCalls(log)) <= 1
                  /\ \A k \in SuperCalls(log) :
                        IF call.stage \in {"setUp", "setUpClass"}
                        THEN k = 1
                        ELSE /\ k = Len(log)
                             /\ {log[l].method : l \in MethodCalls(log)} =
                                  Decorated(dict_, call.stage)
                  /\ (call.stage \in {"setUp", "setUpClass"}
                      /\ MethodCalls(log) # {}) => SuperCalls(log) = {1}
            /\ call.pc = "returned" =>
                  /\ {log[l].method : l \in MethodCalls(log)} =
                       Decorated(dict_, call.stage)
                  /\ Cardinality(SuperCalls(log)) = 1

\* C15 witness: the body decorates for setUp a method of order 2, then one
\* of order 1, then one of order 2; setUp has returned after calling the
\* superclass' setUp, the second method, the first and the third.
C15_Witness ==
    /\ call.op = "testcase" /\ call.pc = "returned"
    /\ call.stage = "setUp"
    /\ call.dict_ = <<[wrapper |-> TRUE, stage |-> "setUp", order |-> 2],
                      [wrapper |-> TRUE, stage |-> "setUp", order |-> 1],
                      [wrapper |-> TRUE, stage |-> "setUp", order |-> 2]>>
    /\ call.log = <<[callee |-> "super", method |-> 0, on |-> "self"],
                    [callee |-> "method", method |-> 2, on |-> "self"],
                    [callee |-> "method", method |-> 1, on |-> "self"],
                    [callee |-> "method", method |-> 3, on |-> "self"]>>

====
